---- MODULE Spec2Model ----
(***************************************************************************)
(* Mood tracker (src/app.py): a CSV-backed record store (load_data,        *)
(* save_data, add_entry, delete_entry, the "Clear All Data" button), the   *)
(* date-range / tag filter of the entry list, and the tag frequency chart. *)
(*                                                                         *)
(* Text is a sequence of one-character strings.  A timestamp is a number   *)
(* of clock ticks; its formatted text "%Y-%m-%d %H:%M:%S" is the pair      *)
(* <<date, time of day>>.  A CSV file is its header and its rows of text   *)
(* fields (the quoting of commas and newlines inside a field, which        *)
(* to_csv and read_csv undo exactly, is not modelled).                     *)
(***************************************************************************)
EXTENDS Integers, Sequences, FiniteSets, TLC

VARIABLES
    file,        \* the backing file mood_data/mood_log.csv
    now,         \* the wall clock, in ticks
    hist,        \* the last store operation (and the delete before it), newest first
    date_range,  \* the "Filter by Date Range" widget: <<>> while untouched
    tag_filter   \* the "Filter by Tag" widget

vars == <<file, now, hist, date_range, tag_filter>>

(***************************************************************************)
(* Bounds of the model                                                     *)
(***************************************************************************)
MaxEntries == 2       \* rows a file holds in the store specifications
MaxViewEntries == 2   \* rows a file holds in the view specification
MaxTagEntries == 3    \* rows a file holds in the tag specification
MaxClock == 2         \* last clock tick
TicksPerDay == 2      \* clock ticks in one calendar day

(***************************************************************************)
(* Program constants                                                       *)
(***************************************************************************)
MinMood == 1
MaxMood == 10
DefaultMood == 7
TopTags == 15

Columns == <<"timestamp", "mood", "tags", "notes">>

(***************************************************************************)
(* Text                                                                    *)
(***************************************************************************)
Digits == <<"0", "1", "2", "3", "4", "5", "6", "7", "8", "9">>

RECURSIVE IntToText(_)
\* str(n) of a non-negative integer, as to_csv writes an int64 cell
IntToText(n) ==
    IF n < 10 THEN <<Digits[n + 1]>>
    ELSE Append(IntToText(n \div 10), Digits[(n % 10) + 1])

DigitValue(c) == CHOOSE d \in 0..9 : Digits[d + 1] = c

RECURSIVE TextToInt(_)
\* the integer read_csv parses from a field of decimal digits
TextToInt(t) ==
    IF Len(t) = 1 THEN DigitValue(t[1])
    ELSE 10 * TextToInt(SubSeq(t, 1, Len(t) - 1)) + DigitValue(t[Len(t)])

\* datetime.strftime(DATE_FORMAT): the date and the time of day
strftime(ticks) == <<ticks \div TicksPerDay, ticks % TicksPerDay>>

\* the datetime parse_dates / pd.to_datetime reads back from that text
to_datetime(text) == text[1] * TicksPerDay + text[2]

\* Timestamp.date()
DateOf(ticks) == ticks \div TicksPerDay

LowerOf == ("W" :> "w") @@ ("S" :> "s") @@ ("N" :> "n") @@ ("A" :> "a")

\* str.lower() on one character
lowerChar(c) == IF c \in DOMAIN LowerOf THEN LowerOf[c] ELSE c

\* str.lower()
lower(t) == [i \in 1..Len(t) |-> lowerChar(t[i])]

Whitespace == {" "}

RECURSIVE lstrip(_)
lstrip(t) ==
    IF t # <<>> /\ t[1] \in Whitespace THEN lstrip(Tail(t)) ELSE t

RECURSIVE rstrip(_)
rstrip(t) ==
    IF t # <<>> /\ t[Len(t)] \in Whitespace
    THEN rstrip(SubSeq(t, 1, Len(t) - 1)) ELSE t

\* str.strip()
strip(t) == rstrip(lstrip(t))

\* str.split(sep): the pieces between the separators, empty pieces kept
split(t, sep) ==
    LET at == SelectSeq([i \in 1..Len(t) |-> i], LAMBDA i : t[i] = sep)
        cut == <<0>> \o at \o <<Len(t) + 1>>
    IN [k \in 1..(Len(at) + 1) |-> SubSeq(t, cut[k] + 1, cut[k + 1] - 1)]

\* needle in haystack (substring)
contains(haystack, needle) ==
    \E i \in 1..(Len(haystack) - Len(needle) + 1) :
        SubSeq(haystack, i, i + Len(needle) - 1) = needle

(***************************************************************************)
(* Cells and frames                                                        *)
(***************************************************************************)
NaN == [t |-> "nan", v |-> <<>>]
Str(s) == [t |-> "str", v |-> s]
Timestamp(ticks) == [t |-> "ts", v |-> ticks]

\* the fields read_csv takes for a missing value (those of its default
\* na_values that the texts of this model can spell), besides the empty field
NAValues == { <<"N", "A">>, <<"n", "a", "n">> }

\* a text cell as read_csv returns it
ParseText(field) ==
    IF field = <<>> \/ field \in NAValues THEN NaN ELSE Str(field)

\* a text cell as to_csv writes it (na_rep = '')
FormatText(cell) == IF cell.t = "nan" THEN <<>> ELSE cell.v

\* faulty variant: a Timestamp written with its date alone
FormatTimestamp_dateOnly(cell) ==
    IF cell.t = "str" THEN cell.v ELSE <<DateOf(cell.v), 0>>

\* a timestamp cell as to_csv writes it: a str unchanged, a Timestamp formatted
FormatTimestamp(cell) == IF cell.t = "str" THEN cell.v ELSE strftime(cell.v)

\* pd.DataFrame(columns=[...])
EmptyFrame == [columns |-> Columns, rows |-> <<>>]

(***************************************************************************)
(* The backing file                                                        *)
(***************************************************************************)
Absent == [kind |-> "absent", header |-> <<>>, rows |-> <<>>]
Malformed == [kind |-> "malformed", header |-> <<>>, rows |-> <<>>]

\* os.path.exists(DATA_FILE)
exists(f) == f.kind # "absent"

ReadRow(r) ==
    [timestamp |-> Timestamp(to_datetime(r.timestamp)),
     mood |-> TextToInt(r.mood),
     tags |-> ParseText(r.tags),
     notes |-> ParseText(r.notes)]

\* pd.read_csv(DATA_FILE, parse_dates=["timestamp"]): raises on a file it
\* cannot parse
read_csv(f) ==
    IF f.kind = "csv"
    THEN [raised |-> FALSE,
          df |-> [columns |-> f.header,
                  rows |-> [i \in 1..Len(f.rows) |-> ReadRow(f.rows[i])]]]
    ELSE [raised |-> TRUE, df |-> EmptyFrame]

\* faulty variant: no try / except around read_csv
load_data_uncaught(f) ==
    IF exists(f) THEN read_csv(f) ELSE [raised |-> FALSE, df |-> EmptyFrame]

\* load_data(): the frame, and whether an exception leaves the function
load_data(f) ==
    IF exists(f)
    THEN IF ~read_csv(f).raised
         THEN [raised |-> FALSE, df |-> read_csv(f).df]
         ELSE [raised |-> FALSE, df |-> EmptyFrame]
    ELSE [raised |-> FALSE, df |-> EmptyFrame]

WriteRow(r) ==
    [timestamp |-> FormatTimestamp(r.timestamp),
     mood |-> IntToText(r.mood),
     tags |-> FormatText(r.tags),
     notes |-> FormatText(r.notes)]

\* df.to_csv(DATA_FILE, index=False): the file after save_data(df)
save_data(df) ==
    [kind |-> "csv", header |-> df.columns,
     rows |-> [i \in 1..Len(df.rows) |-> WriteRow(df.rows[i])]]

(***************************************************************************)
(* Record store                                                            *)
(***************************************************************************)
Range(s) == {s[i] : i \in 1..Len(s)}

\* faulty variant: the new row appended, pd.concat([df, pd.DataFrame([new])])
concat_append(new, df) ==
    [columns |-> Columns \o SelectSeq(df.columns, LAMBDA c : c \notin Range(Columns)),
     rows |-> Append(df.rows, new)]

\* pd.concat([pd.DataFrame([new]), df], ignore_index=True)
concat(new, df) ==
    [columns |-> Columns \o SelectSeq(df.columns, LAMBDA c : c \notin Range(Columns)),
     rows |-> <<new>> \o df.rows]

\* add_entry(mood, tags, notes) at clock time `clock`: the frame it returns
\* and the file it leaves
add_entry(f, clock, mood, tags, notes) ==
    LET df == load_data(f).df
        new == [timestamp |-> Str(strftime(clock)), mood |-> mood,
                tags |-> Str(tags), notes |-> Str(notes)]
        out == concat(new, df)
    IN [file |-> save_data(out), df |-> out, raised |-> FALSE]

\* the sequence without its element at (1-based) position k
RemoveAt(s, k) == SubSeq(s, 1, k - 1) \o SubSeq(s, k + 1, Len(s))

\* faulty variant: the row before the one asked for is dropped
drop_offByOne(df, index) ==
    IF -Len(df.rows) <= index /\ index < Len(df.rows)
    THEN [raised |-> FALSE, df |-> [df EXCEPT !.rows = RemoveAt(df.rows, index)]]
    ELSE [raised |-> TRUE, df |-> df]

\* df.drop(df.index[index]).reset_index(drop=True): Python indexing, a
\* negative index counts from the end, an index outside raises IndexError
drop(df, index) ==
    IF 0 <= index /\ index < Len(df.rows)
    THEN [raised |-> FALSE, df |-> [df EXCEPT !.rows = RemoveAt(df.rows, index + 1)]]
    ELSE IF index < 0 /\ -index <= Len(df.rows)
    THEN [raised |-> FALSE,
          df |-> [df EXCEPT !.rows = RemoveAt(df.rows, Len(df.rows) + index + 1)]]
    ELSE [raised |-> TRUE, df |-> df]

\* faulty variant: the guard without its lower bound
InBounds_noLower(index, df) == index < Len(df.rows)

\* the guard of delete_entry
InBounds(index, df) == 0 <= index /\ index < Len(df.rows)

\* delete_entry(index): the frame it returns and the file it leaves
delete_entry(f, index) ==
    LET df == load_data(f).df
    IN IF InBounds(index, df)
       THEN IF drop(df, index).raised
            THEN [file |-> f, df |-> df, raised |-> TRUE]
            ELSE [file |-> save_data(drop(df, index).df),
                  df |-> drop(df, index).df, raised |-> FALSE]
       ELSE [file |-> f, df |-> df, raised |-> FALSE]

\* os.remove(DATA_FILE): raises FileNotFoundError on an absent file
os_remove(f) ==
    IF exists(f) THEN [file |-> Absent, raised |-> FALSE]
    ELSE [file |-> f, raised |-> TRUE]

\* faulty variant: the file removed without asking whether it exists
clear_unguarded(f) == os_remove(f)

\* the body of the "Clear All Data" button
clear(f) ==
    IF exists(f) THEN os_remove(f) ELSE [file |-> f, raised |-> FALSE]

(***************************************************************************)
(* Entry list: the date-range and tag filters                              *)
(***************************************************************************)
\* the smallest / largest element of a non-empty set of integers
Min(S) == CHOOSE x \in S : \A y \in S : x <= y
Max(S) == CHOOSE x \in S : \A y \in S : y <= x

\* the value of st.date_input: its default (min_date, max_date) until the
\* user picks one date or two
DateRangeValue(df, dr) ==
    IF dr = <<>>
    THEN <<Min({DateOf(df.rows[i].timestamp.v) : i \in 1..Len(df.rows)}),
           Max({DateOf(df.rows[i].timestamp.v) : i \in 1..Len(df.rows)})>>
    ELSE dr

\* faulty variant: the timestamps themselves compared with the two dates at midnight
DateFilter_midnight(df, range) ==
    LET all == [i \in 1..Len(df.rows) |-> i - 1]
    IN IF Len(range) = 2
       THEN SelectSeq(all, LAMBDA i :
                /\ df.rows[i + 1].timestamp.v >= range[1] * TicksPerDay
                /\ df.rows[i + 1].timestamp.v <= range[2] * TicksPerDay)
       ELSE all

\* the rows the date-range filter keeps, as positions of df (0-based, the
\* frame's index labels), in frame order; a range of one date filters nothing
DateFilter(df, range) ==
    LET all == [i \in 1..Len(df.rows) |-> i - 1]
    IN IF Len(range) = 2
       THEN SelectSeq(all, LAMBDA i :
                /\ DateOf(df.rows[i + 1].timestamp.v) >= range[1]
                /\ DateOf(df.rows[i + 1].timestamp.v) <= range[2])
       ELSE all

\* Series.str on the tags column: raises AttributeError unless the column
\* holds strings (a column read_csv found all missing is float64)
StrAccessorRaises(df) == \A i \in 1..Len(df.rows) : df.rows[i].tags.t = "nan"

\* str.contains(tag_filter, case=False, na=False) on one cell, for a filter
\* of plain letters
TagMatches(cell, tf) ==
    cell.t = "str" /\ contains(lower(cell.v), lower(tf))

\* the rows the tag filter keeps of those already kept
TagFilter(df, kept, tf) ==
    SelectSeq(kept, LAMBDA i : TagMatches(df.rows[i + 1].tags, tf))

\* `filtered`: the index labels of the rows shown, in display order, and
\* whether computing it raised
filtered(df, dr, tf) ==
    LET byDate == DateFilter(df, DateRangeValue(df, dr))
    IN IF tf # <<>>
       THEN IF StrAccessorRaises(df)
            THEN [raised |-> TRUE, shown |-> <<>>]
            ELSE [raised |-> FALSE, shown |-> TagFilter(df, byDate, tf)]
       ELSE [raised |-> FALSE, shown |-> byDate]

\* faulty variant: the button carries the row's place in the filtered list
ButtonIndex_listPosition(shown, k) == k - 1

\* idx = int(row['index']): the index the delete button of the k-th row of
\* the list carries
ButtonIndex(shown, k) == shown[k]

(***************************************************************************)
(* Most common tags                                                        *)
(***************************************************************************)
RECURSIVE Flatten(_)
Flatten(ss) == IF ss = <<>> THEN <<>> ELSE Head(ss) \o Flatten(Tail(ss))

\* df['tags'].dropna().astype(str).str.split(',')
tags_all(df) ==
    LET present == SelectSeq(df.rows, LAMBDA r : r.tags.t # "nan")
    IN [i \in 1..Len(present) |-> split(present[i].tags.v, ",")]

\* faulty variant: the tokens not lowercased
tags_flat_caseSensitive(df) ==
    LET toks == SelectSeq(Flatten(tags_all(df)), LAMBDA t : strip(t) # <<>>)
    IN [i \in 1..Len(toks) |-> strip(toks[i])]

\* [t.strip().lower() for sublist in tags_all for t in sublist if t.strip()]
tags_flat(df) ==
    LET toks == SelectSeq(Flatten(tags_all(df)), LAMBDA t : strip(t) # <<>>)
    IN [i \in 1..Len(toks) |-> lower(strip(toks[i]))]

Occurrences(flat, tok) == Cardinality({i \in 1..Len(flat) : flat[i] = tok})

RECURSIVE Unique(_)
\* the distinct elements in order of first appearance
Unique(s) ==
    IF s = <<>> THEN <<>>
    ELSE <<Head(s)>> \o Unique(SelectSeq(Tail(s), LAMBDA x : x # Head(s)))

RECURSIVE SortByCount(_)
\* descending by count, equal counts in the order given
SortByCount(cs) ==
    IF cs = <<>> THEN <<>>
    ELSE LET k == CHOOSE i \in 1..Len(cs) :
                      /\ \A j \in 1..Len(cs) : cs[j].count <= cs[i].count
                      /\ \A j \in 1..(i - 1) : cs[j].count < cs[i].count
         IN <<cs[k]>> \o SortByCount(RemoveAt(cs, k))

\* pd.Series(tags_flat).value_counts()
value_counts(flat) ==
    LET u == Unique(flat)
    IN SortByCount([i \in 1..Len(u) |->
                       [tag |-> u[i], count |-> Occurrences(flat, u[i])]])

\* Series.head(n)
head(s, n) == SubSeq(s, 1, IF Len(s) < n THEN Len(s) ELSE n)

\* tag_counts, the series the bar chart shows (empty: "No tags available yet.")
tag_counts(df) == head(value_counts(tags_flat(df)), TopTags)

(***************************************************************************)
(* The page: one run of the script                                         *)
(***************************************************************************)
\* one run of the script from "Load Data" to the entry list: the index labels
\* of the rows listed, and whether the run stopped on an exception (the entry
\* list, the charts and the footer are then not rendered)
Page(f, dr, tf) ==
    LET df == load_data(f).df
    IN IF df.rows = <<>>
       THEN [raised |-> FALSE, shown |-> <<>>]
       ELSE filtered(df, dr, tf)

\* the "Most Common Tags" chart of that run, <<>> when nothing is charted
Chart(f, dr, tf) ==
    LET df == load_data(f).df
    IN IF df.rows = <<>> \/ Page(f, dr, tf).raised
       THEN <<>>
       ELSE tag_counts(df)

(***************************************************************************)
(* Inputs                                                                  *)
(***************************************************************************)
Entry(m, t, n) == [mood |-> m, tags |-> t, notes |-> n]

\* form inputs of the store specifications: the ends and the default of the
\* slider, empty and non-empty texts, and a text read_csv takes for a
\* missing value
StoreInputs ==
    {Entry(MinMood, <<>>, <<>>), Entry(MaxMood, <<"w">>, <<"n">>),
     Entry(DefaultMood, <<"N", "A">>, <<>>)}

\* form inputs of the view specification
ViewInputs ==
    {Entry(DefaultMood, t, <<>>) : t \in {<<>>, <<"W", "o", "r", "k">>}}

WorkStudy == <<"W", "o", "r", "k", ",", " ", "S", "t", "u", "d", "y">>
Work == <<"w", "o", "r", "k">>
Family == <<"f", "a", "m", "i", "l", "y">>
\* sixteen distinct tags, one more than the chart shows
Sixteen ==
    <<"a", ",", "b", ",", "c", ",", "d", ",", "e", ",", "f", ",", "g", ",", "h", ",",
      "i", ",", "j", ",", "k", ",", "l", ",", "m", ",", "n", ",", "o", ",", "p">>

\* form inputs of the tag specification
TagInputs ==
    {Entry(DefaultMood, t, <<>>) : t \in {<<>>, WorkStudy, Work, Family, Sixteen}}

\* values of the "Filter by Tag" widget
TagFilterInputs == {<<>>, <<"w">>, <<"s">>}

\* the calendar dates of the model's clock
Dates == 0..(MaxClock \div TicksPerDay)

\* values of the "Filter by Date Range" widget: one date (a range being
\* picked) or two
DateRangeInputs == {<<d>> : d \in Dates} \cup {<<s, e>> : s \in Dates, e \in Dates}

\* indexes delete_entry is called with
IndexInputs == (-1)..MaxEntries

\* contents of the backing file left by earlier runs or other programs
PriorFiles ==
    {Absent, Malformed,
     [kind |-> "csv", header |-> Columns, rows |-> <<>>],
     [kind |-> "csv", header |-> Columns,
      rows |-> <<[timestamp |-> <<0, 0>>, mood |-> <<"3">>,
                  tags |-> <<"N", "A">>, notes |-> <<"n">>]>>],
     [kind |-> "csv", header |-> Columns,
      rows |-> <<[timestamp |-> <<0, 0>>, mood |-> <<"1", "0">>,
                  tags |-> <<"w">>, notes |-> <<>>],
                 [timestamp |-> <<1, 0>>, mood |-> <<"3">>,
                  tags |-> <<>>, notes |-> <<"n">>]>>]}

(***************************************************************************)
(* Actions                                                                 *)
(***************************************************************************)
\* the record of one operation: its arguments (pos: the place in the entry
\* list of the delete button pressed, 0 without one), the file before it,
\* the frame it returned and whether it raised
Op(name, index, e, pre, ret, raised) ==
    [name |-> name, index |-> index, pos |-> 0, mood |-> e.mood, tags |-> e.tags,
     notes |-> e.notes, pre |-> pre, ret |-> ret, raised |-> raised]

NoEntry == Entry(0, <<>>, <<>>)

\* the operation just run is recorded; the one before it is kept while
\* direct calls of delete_entry follow one another
Log(op) ==
    hist' = IF /\ hist # <<>>
               /\ hist[1].name = "delete" /\ hist[1].pos = 0
               /\ op.name = "delete" /\ op.pos = 0
            THEN <<op, hist[1]>>
            ELSE <<op>>

\* "Add Entry" of the sidebar form: add_entry(mood, tags, notes)
SubmitForm(cap, e) ==
    /\ Len(load_data(file).df.rows) < cap
    /\ LET r == add_entry(file, now, e.mood, e.tags, e.notes)
       IN /\ file' = r.file
          /\ Log(Op("add", 0, e, file, r.df, r.raised))
    /\ UNCHANGED <<now, date_range, tag_filter>>

\* a call delete_entry(index), from the button at place pos of the list
DeleteCall(index, pos) ==
    /\ LET r == delete_entry(file, index)
       IN /\ file' = r.file
          /\ Log([Op("delete", index, NoEntry, file, r.df, r.raised)
                     EXCEPT !.pos = pos])
    /\ UNCHANGED <<now, date_range, tag_filter>>

\* delete_entry(index), called with any index
DeleteAt(index) == DeleteCall(index, 0)

\* the delete button of the k-th entry listed: delete_entry(idx)
DeleteButton(k) ==
    /\ k \in 1..Len(Page(file, date_range, tag_filter).shown)
    /\ DeleteCall(ButtonIndex(Page(file, date_range, tag_filter).shown, k), k)

\* "Clear All Data", a button of the footer
ClearButton ==
    /\ ~Page(file, date_range, tag_filter).raised
    /\ LET r == clear(file)
       IN /\ file' = r.file
          /\ Log(Op("clear", 0, NoEntry, file, EmptyFrame, r.raised))
    /\ UNCHANGED <<now, date_range, tag_filter>>

\* a run of the script that changes nothing: df = load_data()
Rerun ==
    /\ Log(Op("load", 0, NoEntry, file, load_data(file).df, load_data(file).raised))
    /\ UNCHANGED <<file, now, date_range, tag_filter>>

\* the user picks a date range; the widget is drawn when there are entries
SetDateRange(dr) ==
    /\ load_data(file).df.rows # <<>>
    /\ date_range' = dr
    /\ Log(Op("load", 0, NoEntry, file, load_data(file).df, load_data(file).raised))
    /\ UNCHANGED <<file, now, tag_filter>>

\* the user types a tag filter
SetTagFilter(tf) ==
    /\ load_data(file).df.rows # <<>>
    /\ tag_filter' = tf
    /\ Log(Op("load", 0, NoEntry, file, load_data(file).df, load_data(file).raised))
    /\ UNCHANGED <<file, now, date_range>>

\* the wall clock advances (datetime.now())
Tick ==
    /\ now < MaxClock
    /\ now' = now + 1
    /\ UNCHANGED <<file, hist, date_range, tag_filter>>

(***************************************************************************)
(* Specifications                                                          *)
(***************************************************************************)
Init ==
    /\ file = Absent
    /\ now = 0
    /\ hist = <<>>
    /\ date_range = <<>>
    /\ tag_filter = <<>>

InitAny ==
    /\ file \in PriorFiles
    /\ now = 0
    /\ hist = <<>>
    /\ date_range = <<>>
    /\ tag_filter = <<>>

\* the record store, driven through its operations
Next ==
    \/ \E e \in StoreInputs : SubmitForm(MaxEntries, e)
    \/ \E i \in IndexInputs : DeleteAt(i)
    \/ ClearButton
    \/ Rerun
    \/ Tick

\* the page, driven through its widgets
NextView ==
    \/ \E e \in ViewInputs : SubmitForm(MaxViewEntries, e)
    \/ \E k \in 1..MaxViewEntries : DeleteButton(k)
    \/ \E dr \in DateRangeInputs : SetDateRange(dr)
    \/ \E tf \in TagFilterInputs : SetTagFilter(tf)
    \/ ClearButton
    \/ Tick

\* the page with tag-rich entries, the clock standing still
NextTags ==
    \/ \E e \in TagInputs : SubmitForm(MaxTagEntries, e)
    \/ \E k \in 1..MaxTagEntries : DeleteButton(k)
    \/ \E tf \in TagFilterInputs : SetTagFilter(tf)
    \/ ClearButton

Spec == Init /\ [][Next]_vars
SpecAny == InitAny /\ [][Next]_vars
SpecView == Init /\ [][NextView]_vars
SpecTags == Init /\ [][NextTags]_vars

(***************************************************************************)
(* Properties                                                              *)
(***************************************************************************)
\* the last operation, the frame load() gave before it, the frame it gives now
Last == hist[1]
PreDf(op) == load_data(op.pre).df
Loaded == load_data(file).df

\* the index is a position of the frame
IndexInRange(index, df) == index >= 0 /\ index < Len(df.rows)

\* C1: add(m,t,n) followed by load() yields a collection whose first element
\* has mood = m, tags = t and notes = n, for every t and n (the empty string
\* included) and every prior content of the backing file.
C1_AddThenLoadFirst ==
    (hist # <<>> /\ Last.name = "add") =>
        /\ Loaded.rows # <<>>
        /\ Loaded.rows[1].mood = Last.mood
        /\ Loaded.rows[1].tags = Str(Last.tags)
        /\ Loaded.rows[1].notes = Str(Last.notes)

\* the positions of s outside the set P, in order
Others(s, P) == SelectSeq([k \in 1..Len(s) |-> k], LAMBDA k : k \notin P)

\* s without its elements at the positions P
Without(s, P) == [k \in 1..Len(Others(s, P)) |-> s[Others(s, P)[k]]]

C3_OutOfBoundsDeleteIsNoOp ==
    (hist # <<>> /\ Last.name = "delete" /\ ~IndexInRange(Last.index, PreDf(Last))) =>
        /\ ~Last.raised
        /\ Last.ret = PreDf(Last)
        /\ file = Last.pre

C3_Witness ==
    /\ hist # <<>>
    /\ Last.name = "delete"
    /\ Last.index = -1
    /\ Len(PreDf(Last).rows) = 2
    /\ file = Last.pre

\* C4: for every collection reachable by add, deleteAt and clear, load() after
\* save(load()) returns the same entries in the same order as load() before.
C4_SaveLoadRoundTrip ==
    load_data(save_data(Loaded)).df = Loaded

C4_Witness ==
    /\ Len(Loaded.rows) = 2
    /\ Loaded.rows[1].tags = NaN
    /\ Loaded.rows[2].tags # NaN
    /\ Loaded.rows[1].timestamp.v % TicksPerDay # 0

\* C5: after clear(), in any state, the backing file does not exist and the
\* next load() is empty; clear() on an absent file changes nothing and raises
\* no error.
C5_ClearRemovesFile ==
    (hist # <<>> /\ Last.name = "clear") =>
        /\ ~exists(file)
        /\ Loaded.rows = <<>>
        /\ ~Last.raised
        /\ ~exists(Last.pre) => file = Last.pre

C5_Witness ==
    /\ hist # <<>>
    /\ Last.name = "clear"
    /\ Len(Last.pre.rows) = 2
    /\ ~exists(file)

\* C6: in every state reachable from an empty store (the clock never going
\* back) the persisted collection is newest-first, timestamp[i] >=
\* timestamp[j] for i < j, and a new entry is placed at position 0.
C6_NewestFirst ==
    /\ \A i \in 1..Len(Loaded.rows) : \A j \in (i + 1)..Len(Loaded.rows) :
          Loaded.rows[i].timestamp.v >= Loaded.rows[j].timestamp.v
    /\ (hist # <<>> /\ Last.name = "add") =>
          /\ Loaded.rows # <<>>
          /\ Loaded.rows[1].mood = Last.mood
          /\ Tail(Loaded.rows) = PreDf(Last).rows

C6_Witness ==
    /\ hist # <<>>
    /\ Last.name = "add"
    /\ Len(Loaded.rows) = 2
    /\ Loaded.rows[1].timestamp.v > Loaded.rows[2].timestamp.v

\* C7: load() never raises and never modifies the backing file: on an absent
\* or unparseable file it returns an empty collection with the columns
\* timestamp, mood, tags, notes; otherwise the persisted entries in file order.
C7_LoadIsTotal ==
    /\ ~load_data(file).raised
    /\ file.kind \in {"absent", "malformed"} =>
          Loaded = [columns |-> <<"timestamp", "mood", "tags", "notes">>, rows |-> <<>>]
    /\ file.kind = "csv" =>
          /\ Len(Loaded.rows) = Len(file.rows)
          /\ \A i \in 1..Len(file.rows) :
                /\ strftime(Loaded.rows[i].timestamp.v) = file.rows[i].timestamp
                /\ IntToText(Loaded.rows[i].mood) = file.rows[i].mood
                /\ Loaded.rows[i].tags \in {NaN, Str(file.rows[i].tags)}
                /\ Loaded.rows[i].notes \in {NaN, Str(file.rows[i].notes)}
    /\ (hist # <<>> /\ Last.name = "load") =>
          /\ ~Last.raised
          /\ file = Last.pre
          /\ Last.ret = Loaded

C7_Witness ==
    /\ hist # <<>>
    /\ Last.name = "load"
    /\ file.kind = "malformed"
    /\ Last.ret.rows = <<>>

\* the calendar date written in the persisted timestamp of row i of file f
PersistedDate(f, i) == f.rows[i].timestamp[1]

\* s is strictly increasing
Increasing(s) == \A i \in 1..Len(s) : \A j \in (i + 1)..Len(s) : s[i] < s[j]

\* C8: the date-range filter with range [S,E] returns exactly the entries
\* with S <= date(timestamp) <= E, both ends inclusive, in their original
\* order; with [D,D] exactly the entries of day D whatever their time of day.
C8_DateRangeFilter ==
    \A S \in Dates : \A E \in Dates :
        Loaded.rows # <<>> =>
            LET page == Page(file, <<S, E>>, <<>>)
            IN /\ ~page.raised
               /\ Increasing(page.shown)
               /\ Range(page.shown) =
                     {i - 1 : i \in {k \in 1..Len(file.rows) :
                                        /\ S <= PersistedDate(file, k)
                                        /\ PersistedDate(file, k) <= E}}

C8_Witness ==
    /\ date_range = <<0, 0>>
    /\ tag_filter = <<>>
    /\ Len(file.rows) = 2
    /\ file.rows[1].timestamp = <<1, 0>>
    /\ file.rows[2].timestamp = <<0, 1>>
    /\ Page(file, date_range, tag_filter).shown = <<1>>

\* the comma-separated pieces of the tags of all rows of df, missing tags
\* skipped, each trimmed and lowercased
RECURSIVE NormalisedPieces(_)
NormalisedPieces(rows) ==
    IF rows = <<>> THEN <<>>
    ELSE LET ps == IF Head(rows).tags.t = "nan" THEN <<>>
                   ELSE split(Head(rows).tags.v, ",")
         IN [j \in 1..Len(ps) |-> lower(strip(ps[j]))]
            \o NormalisedPieces(Tail(rows))

\* the tags of the rows of df, as a bag
TagsBag(df) ==
    [t \in {df.rows[i].tags : i \in 1..Len(df.rows)} |->
        Cardinality({i \in 1..Len(df.rows) : df.rows[i].tags = t})]

\* C9: tag frequency counts, over the whole unfiltered collection, the tokens
\* obtained by splitting each entry's tags on commas, trimming and
\* lowercasing, empty tokens dropped and missing tags skipped; at most the 15
\* most frequent are returned, in descending count order; the tags
\* "Work, Study", "work", "family" give work:2, study:1, family:1.
C9_TagFrequency ==
    LET page == Page(file, date_range, tag_filter)
        chart == Chart(file, date_range, tag_filter)
        pieces == NormalisedPieces(Loaded.rows)
        TokenCount(k) == Cardinality({i \in 1..Len(pieces) : pieces[i] = k})
    IN (Loaded.rows # <<>> /\ ~page.raised) =>
        /\ Len(chart) <= 15
        /\ \A i \in 1..Len(chart) : \A j \in (i + 1)..Len(chart) :
              /\ chart[i].count >= chart[j].count
              /\ chart[i].tag # chart[j].tag
        /\ \A i \in 1..Len(chart) :
              /\ chart[i].tag # <<>>
              /\ chart[i].count > 0
              /\ chart[i].count = TokenCount(chart[i].tag)
        /\ \A k \in Range(pieces) \ {<<>>} :
              \/ \E i \in 1..Len(chart) : chart[i].tag = k
              \/ Len(chart) = 15 /\ TokenCount(k) <= chart[15].count
        /\ TagsBag(Loaded) = (Str(WorkStudy) :> 1) @@ (Str(Work) :> 1) @@ (Str(Family) :> 1) =>
              /\ Len(chart) = 3
              /\ chart[1] = [tag |-> <<"w", "o", "r", "k">>, count |-> 2]
              /\ {chart[2], chart[3]} =
                    {[tag |-> <<"s", "t", "u", "d", "y">>, count |-> 1],
                     [tag |-> <<"f", "a", "m", "i", "l", "y">>, count |-> 1]}

C9_Witness ==
    /\ TagsBag(Loaded) = (Str(WorkStudy) :> 1) @@ (Str(Work) :> 1) @@ (Str(Family) :> 1)
    /\ tag_filter = <<"w">>
    /\ Len(Page(file, date_range, tag_filter).shown) = 2
    /\ Len(Chart(file, date_range, tag_filter)) = 3

\* row i of file f passes the filters dr and tf
Visible(f, i, dr, tf) ==
    /\ Len(dr) = 2 =>
          /\ dr[1] <= PersistedDate(f, i)
          /\ PersistedDate(f, i) <= dr[2]
    /\ tf # <<>> =>
          /\ f.rows[i].tags # <<>>
          /\ f.rows[i].tags \notin NAValues
          /\ contains(lower(f.rows[i].tags), lower(tf))

====
